---- MODULE Spec2Model ----
(***************************************************************************)
(* A model of GridSolver<2, real> (kim_hybrid_fluid/GridSolver.h) and of   *)
(* the part of GLSimulationWindow that builds and drives it.               *)
(*                                                                         *)
(* Numbers.  The program computes in floating point; the model computes    *)
(* in exact integers on fixed-point grids:                                 *)
(*   - positions are integers, one cell being Spacing position units;      *)
(*   - time is counted in ticks, a frame lasting FrameDt ticks;            *)
(*   - velocities are position units per tick, so vel * dt is exact;       *)
(*   - density values are integers, DensityOne standing for 1.0;           *)
(*   - gravity is counted in tenths: eps lies below every nonzero value   *)
(*     of this scale and of the scale of its square;                       *)
(*   - viscosity is counted in halves of eps, so that 1 is a positive      *)
(*     (subnormal) value below eps;                                        *)
(*   - a maxCfl value is a pair <<n, k>> standing for n / CflOne plus k    *)
(*     halves of eps, ordered by n first: eps is <<0, Eps>>.               *)
(* Where the program rounds (0.5f * x, the interpolation of sample) the    *)
(* model rounds downwards.                                                 *)
(***************************************************************************)
EXTENDS Integers, Sequences, FiniteSets, TLC

\* ------------------------------------------------------------ bounds
SolverN == 3
Spacing == 2
FrameDt == 6
MaxFrames == 2
MaxSeed == 2
MaxSpeed == 9
MaxSubSteps == 2
DensityOne == 4
MaxGravityCalls == 2
CflOne == 2
MaxSide == 3
MaxSizedCalls == 2
WinWidth == 2
WinHeight == 2
MaxClientCalls == 2

\* ------------------------------------------------- program constants
\* Limits<real>::eps(): numeric_limits<real>::min(), the smallest positive
\* normal value, counted in halves of itself; subnormal values lie below it.
Eps == 2
\* _maxCfl{ 5.0f }
DefaultMaxCfl == <<5 * CflOne, 0>>
\* _gravity{ 0, -9.8f }, in tenths
DefaultGravity == <<0, -98>>
\* _numberOfFixedSubTimeSteps = 5 in the window
GuiDefaultSubTimeSteps == 5

\* ------------------------------------------------------------ helpers
Max(a, b) == IF a >= b THEN a ELSE b
Min(a, b) == IF a <= b THEN a ELSE b
Abs(a) == IF a >= 0 THEN a ELSE -a
\* ceil(a / b) for a >= 0, b > 0
CeilDiv(a, b) == (a + b - 1) \div b

SeqCount(s, e) == Cardinality({k \in 1..Len(s) : s[k] = e})

\* ------------------------------------------------------------- fields
\* GridSolver(size, spacing, origin): both fields get size + 2 per axis and
\* the origin moved out by one cell.
FieldSize == SolverN + 2
\* The window builds the solver with origin -1.0 and spacing 2.0 / gridSize:
\* the origin lies half the grid's width below zero.
GridOrigin == -((SolverN * Spacing) \div 2)
FieldOrigin == GridOrigin - Spacing

Cells == (0..(FieldSize - 1)) \X (0..(FieldSize - 1))
Interior == (1..SolverN) \X (1..SolverN)
\* the face samples of the two velocity components (one more along own axis)
UFaces == (0..FieldSize) \X (0..(FieldSize - 1))
VFaces == (0..(FieldSize - 1)) \X (0..FieldSize)

\* CellCenteredScalarGrid::dataPosition: origin + index * spacing
DataPosition(idx) ==
  <<FieldOrigin + idx[1] * Spacing, FieldOrigin + idx[2] * Spacing>>

\* CellCenteredScalarGrid::cellSize
CellSize == <<Spacing, Spacing>>

\* CellCenteredScalarGrid::bounds: the box spanned by the data positions
Bounds ==
  [min |-> <<FieldOrigin, FieldOrigin>>,
   max |-> <<FieldOrigin + (FieldSize - 1) * Spacing,
             FieldOrigin + (FieldSize - 1) * Spacing>>]

\* One axis of sample(): the position relative to the origin is clamped to
\* the data range; the cell to the left of it (at most the last but one) and
\* the offset into that cell.
AxisCell(p) ==
  LET r == Max(0, Min(p - FieldOrigin, (FieldSize - 1) * Spacing))
      i == Min(r \div Spacing, FieldSize - 2)
  IN  [i |-> i, f |-> r - i * Spacing]

\* CellCenteredScalarGrid::sample: bilinear interpolation of the four
\* stored values around the point.
Sample(d, p) ==
  LET ax == AxisCell(p[1])
      ay == AxisCell(p[2])
      i == ax.i
      j == ay.i
      fx == ax.f
      fy == ay.f
  IN  ( (Spacing - fx) * (Spacing - fy) * d[<<i, j>>]
      + fx * (Spacing - fy) * d[<<i + 1, j>>]
      + (Spacing - fx) * fy * d[<<i, j + 1>>]
      + fx * fy * d[<<i + 1, j + 1>>] ) \div (Spacing * Spacing)

\* The cells whose stored value sample() reads with a nonzero weight.
Stencil(p) ==
  LET ax == AxisCell(p[1])
      ay == AxisCell(p[2])
      xs == IF ax.f = 0 THEN {ax.i} ELSE IF ax.f = Spacing THEN {ax.i + 1} ELSE {ax.i, ax.i + 1}
      ys == IF ay.f = 0 THEN {ay.i} ELSE IF ay.f = Spacing THEN {ay.i + 1} ELSE {ay.i, ay.i + 1}
  IN  xs \X ys

\* FaceCenteredGrid::valueAtCellCenter, doubled (the sum of the two faces of
\* the cell on each axis), so that the halves stay exact.
ValueAtCellCenter2(vel, idx) ==
  <<vel.u[idx] + vel.u[<<idx[1] + 1, idx[2]>>],
    vel.v[idx] + vel.v[<<idx[1], idx[2] + 1>>]>>

\* 0.5f * x
Half(x) == x \div 2

\* ------------------------------------------------------ sub-solvers
\* math::isPositive(x): x > eps
IsPositive(x) == x > Eps

\* math::isZero(x): |x| <= eps, for a gravity component, in tenths: of the
\* values of that scale only 0 is not above eps.
IsZero(x) == x = 0

TowardZero(x) == IF x >= 0 THEN x \div 2 ELSE -((-x) \div 2)

\* GridBackwardEulerDiffusionSolver::solve: an implicit diffusion step.  Its
\* numerics are outside the solver; it smooths the field towards rest and
\* does nothing over an empty interval.
DiffusionSolve(vel, nu, dt) ==
  IF dt = 0 THEN vel
  ELSE [u |-> [f \in UFaces |-> TowardZero(vel.u[f])],
        v |-> [f \in VFaces |-> TowardZero(vel.v[f])]]

\* A projection against the closed domain walls: the face samples on and
\* outside the walls of the interior are brought to rest.
Project(vel) ==
  [u |-> [f \in UFaces |->
            IF f[1] <= 1 \/ f[1] >= SolverN + 1 THEN 0 ELSE vel.u[f]],
   v |-> [f \in VFaces |->
            IF f[2] <= 1 \/ f[2] >= SolverN + 1 THEN 0 ELSE vel.v[f]]]

\* GridFractionalSinglePhasePressureSolver::solve: the fields it may return.
\* A field that already satisfies the constraint comes back unchanged.
PressureOutcomes(vel) == {vel, Project(vel)}

\* ----------------------------------------------------------- Solver
\* size(): _solverSize
SolverSize == <<SolverN, SolverN>>

\* setViscosityCoefficient storing its argument as given
ClampViscosityNone(viscosity) == viscosity

\* setViscosityCoefficient: math::max(viscosity, 0)
ClampViscosity(viscosity) == Max(viscosity, 0)

\* a < b for two maxCfl values
CflLess(a, b) == a[1] < b[1] \/ (a[1] = b[1] /\ a[2] < b[2])

\* eps as a maxCfl value
CflEps == <<0, Eps>>

\* setMaxCfl: math::max(newCfl, eps)
ClampMaxCfl(newCfl) == IF CflLess(newCfl, CflEps) THEN CflEps ELSE newCfl

\* The loop of applyBoundaryCondition: four edge copies per i.
RECURSIVE BoundaryLoop(_, _, _)
BoundaryLoop(d, i, n) ==
  IF i > n THEN d
  ELSE LET d1 == [d  EXCEPT ![<<0, i>>]     = d[<<1, i>>]]
           d2 == [d1 EXCEPT ![<<n + 1, i>>] = d1[<<n, i>>]]
           d3 == [d2 EXCEPT ![<<i, 0>>]     = d2[<<i, 1>>]]
           d4 == [d3 EXCEPT ![<<i, n + 1>>] = d3[<<i, n>>]]
       IN  BoundaryLoop(d4, i + 1, n)

\* applyBoundaryCondition with its loop stopping one short (i < N)
ApplyBoundaryConditionShortLoop(d) ==
  LET n  == SolverSize[1]
      e  == BoundaryLoop(d, 1, n - 1)
      c1 == [e  EXCEPT ![<<0, 0>>] = Half(e[<<1, 0>>] + e[<<0, 1>>])]
      c2 == [c1 EXCEPT ![<<0, n + 1>>] = Half(c1[<<1, n + 1>>] + c1[<<0, n>>])]
      c3 == [c2 EXCEPT ![<<n + 1, 0>>] = Half(c2[<<n, 0>>] + c2[<<n + 1, 1>>])]
      c4 == [c3 EXCEPT ![<<n + 1, n + 1>>] =
                          Half(c3[<<n, n + 1>>] + c3[<<n + 1, n>>])]
  IN  c4

\* applyBoundaryCondition
ApplyBoundaryCondition(d) ==
  LET n  == SolverSize[1]
      e  == BoundaryLoop(d, 1, n)
      c1 == [e  EXCEPT ![<<0, 0>>] = Half(e[<<1, 0>>] + e[<<0, 1>>])]
      c2 == [c1 EXCEPT ![<<0, n + 1>>] = Half(c1[<<1, n + 1>>] + c1[<<0, n>>])]
      c3 == [c2 EXCEPT ![<<n + 1, 0>>] = Half(c2[<<n, 0>>] + c2[<<n + 1, 1>>])]
      c4 == [c3 EXCEPT ![<<n + 1, n + 1>>] =
                          Half(c3[<<n, n + 1>>] + c3[<<n + 1, n>>])]
  IN  c4

\* advectDensity, the clamp: one axis of newPos kept inside the bounds by
\* one cell.
ClampAxis(x, lo, hi) ==
  LET x1 == IF x < lo THEN lo ELSE x
  IN  IF x1 > hi THEN hi ELSE x1

\* advectDensity clamping newPos to the bounds themselves
BacktracePointToBounds(vel, idx, dt) ==
  LET pos == DataPosition(idx)
  IN  <<ClampAxis(pos[1] - vel.u[idx] * dt, Bounds.min[1], Bounds.max[1]),
        ClampAxis(pos[2] - vel.v[idx] * dt, Bounds.min[2], Bounds.max[2])>>

\* advectDensity keeping newPos two cells inside the bounds
BacktracePointTwoCells(vel, idx, dt) ==
  LET pos == DataPosition(idx)
  IN  <<ClampAxis(pos[1] - vel.u[idx] * dt,
                  Bounds.min[1] + 2 * CellSize[1], Bounds.max[1] - CellSize[1]),
        ClampAxis(pos[2] - vel.v[idx] * dt,
                  Bounds.min[2] + 2 * CellSize[2], Bounds.max[2] - CellSize[2])>>

\* advectDensity: the point at which the density is sampled for cell idx.
BacktracePoint(vel, idx, dt) ==
  LET velx == vel.u[idx]
      vely == vel.v[idx]
      pos  == DataPosition(idx)
      minX == Bounds.min[1] + CellSize[1]
      maxX == Bounds.max[1] - CellSize[1]
      minY == Bounds.min[2] + CellSize[2]
      maxY == Bounds.max[2] - CellSize[2]
  IN  <<ClampAxis(pos[1] - velx * dt, minX, maxX),
        ClampAxis(pos[2] - vely * dt, minY, maxY)>>

\* advectDensity: the cell is overwritten in place.
AdvectDensity(d, vel, idx, dt) ==
  [d EXCEPT ![idx] = Sample(d, BacktracePoint(vel, idx, dt))]

\* The loops of computeAdvection: y outside, x inside, both 1..N with
\* N = size().x.
RECURSIVE AdvectionLoop(_, _, _, _, _)
AdvectionLoop(d, vel, dt, x, y) ==
  LET n == SolverSize[1]
  IN  IF y > n THEN d
      ELSE IF x > n THEN AdvectionLoop(d, vel, dt, 1, y + 1)
      ELSE AdvectionLoop(AdvectDensity(d, vel, <<x, y>>, dt), vel, dt, x + 1, y)

\* computeAdvection handing back a field of the solver's size, without the
\* ghost border
ComputeAdvectionResized(d, vel, dt) ==
  LET r == AdvectionLoop(d, vel, dt, 1, 1)
  IN  [c \in Interior |-> r[c]]

\* computeAdvection
ComputeAdvection(d, vel, dt) ==
  ApplyBoundaryCondition(AdvectionLoop(d, vel, dt, 1, 1))

\* The points computeAdvection samples in one sweep.
SweepPoints(vel, dt) ==
  LET n == SolverSize[1]
  IN  {BacktracePoint(vel, idx, dt) : idx \in (1..n) \X (1..n)}

\* cfl: the largest component of (cell-centre velocity + dt * gravity) over
\* all cells, never below 0, doubled.
MaxVel2(vel, g, dt) ==
  LET comps == UNION {
        LET c == ValueAtCellCenter2(vel, idx)
        IN  {c[1] + 2 * dt * g[1], c[2] + 2 * dt * g[2]} : idx \in Cells}
      top == CHOOSE m \in comps : \A c \in comps : m >= c
  IN  Max(0, top)

\* static_cast<size_t>(x) for a float x beyond the range of size_t is
\* undefined: a build gives 0 or a count beyond every bound.
OutOfRangeCast == {0, MaxSubSteps + 1}

\* numberOfSubTimeSteps: the values static_cast<size_t>(max(ceil(cfl /
\* maxCfl), 1)) may give, with cfl = maxVel * dt / spacing.  Under a maxCfl
\* of some halves of eps the quotient of a positive cfl is beyond size_t.
NumberOfSubTimeSteps(vel, g, cflMax, dt) ==
  IF cflMax[1] > 0
  THEN {Max(CeilDiv(MaxVel2(vel, g, dt) * dt * CflOne,
                    2 * Spacing * cflMax[1]), 1)}
  ELSE IF MaxVel2(vel, g, dt) = 0 THEN {1}
  ELSE OutOfRangeCast

\* computeGravity: the guard, squaredNorm() > eps; the squared norm is in
\* hundredths, a scale on which only 0 is not above eps.
GravityActive(g) == g[1] * g[1] + g[2] * g[2] > 0

\* computeGravity adding dt * g_y to the y samples only
ComputeGravityYOnly(vel, g, dt) ==
  IF GravityActive(g)
  THEN [u |-> vel.u,
        v |-> [f \in VFaces |-> vel.v[f] + dt * g[2]]]
  ELSE vel

\* computeGravity: dt * g_k is added to every sample of component k unless
\* g_k is (numerically) zero; nothing happens for a gravity whose squared
\* norm is not above eps, which on this scale is the gravity (0, 0).  No stage of onAdvanceTimeStep calls it: its only
\* caller, computeExternalForces, is commented out of velocityStep.
ComputeGravity(vel, g, dt) ==
  IF GravityActive(g)
  THEN [u |-> [f \in UFaces |->
                 IF IsZero(g[1]) THEN vel.u[f] ELSE vel.u[f] + dt * g[1]],
        v |-> [f \in VFaces |->
                 IF IsZero(g[2]) THEN vel.v[f] ELSE vel.v[f] + dt * g[2]]]
  ELSE vel

\* densityStep, velocityStep and onAdvanceTimeStep: the calls in order.
DensityStepStages == <<"computeSource", "computeViscosity", "computeAdvection">>

\* velocityStep projecting before it diffuses
VelocityStepStagesPressureFirst ==
  <<"beginAdvanceTimeStep", "computePressure", "computeViscosity",
    "computeAdvection", "endAdvanceTimeStep">>

VelocityStepStages ==
  <<"beginAdvanceTimeStep", "computeViscosity", "computePressure",
    "computeAdvection", "endAdvanceTimeStep">>

OnAdvanceTimeStepStages ==
  <<"beginAdvanceTimeStep">> \o DensityStepStages \o VelocityStepStages
    \o <<"endAdvanceTimeStep">>

\* Collider::update(currentTime, timeInterval), called by updateCollider
\* when a collider is attached: the collider keeps the arguments.
UpdateCollider(c, t, dt) ==
  IF c.attached THEN [c EXCEPT !.lastUpdate = <<t, dt>>] ELSE c

UpdateColliderEvents(c) ==
  IF c.attached THEN <<"collider.update">> ELSE <<>>

\* initialize passing a frame's interval to the collider
InitializeColliderWithFrame(c, t) == UpdateCollider(c, t, FrameDt)

\* initialize: updateCollider(0.0); updateEmitter(0.0)
InitializeCollider(c, t) == UpdateCollider(c, t, 0)

\* computeViscosity solving for every coefficient that is not negative
ViscosityActiveFromZero(nu) == nu >= 0

\* computeViscosity: the guard of the diffusion solve
ViscosityActive(nu) == IsPositive(nu)

\* isInsideSdf: the signed distance is negative inside
IsInsideSdf(phi) == phi < 0

\* colliderSdf()->sample(p): the signed distance the boundary condition
\* solver has rasterized at its last updateCollider.  The collider is a box
\* of half widths (2 * Spacing, Spacing) around the data position of cell
\* (2, 2); without a collider every point is outside.
ColliderSdf(c, p) ==
  IF c.rasterized
  THEN LET o == DataPosition(<<2, 2>>)
       IN  Max(Abs(p[1] - o[1]) - 2 * Spacing, Abs(p[2] - o[2]) - Spacing)
  ELSE FieldSize * Spacing

\* extrapolateIntoCollider marking the cells inside the collider as valid
ColliderMarkerInverted(c) ==
  [idx \in Cells |->
     IF IsInsideSdf(ColliderSdf(c, DataPosition(idx))) THEN 1 ELSE 0]

\* extrapolateIntoCollider, the marker: 0 for the cells whose data position
\* is inside the collider, 1 for the others.
ColliderMarker(c) ==
  [idx \in Cells |->
     IF IsInsideSdf(ColliderSdf(c, DataPosition(idx))) THEN 0 ELSE 1]

\* extrapolateIntoCollider, the depth: ceil(_maxCfl)
ExtrapolationDepth(cflMax) ==
  CeilDiv(cflMax[1], CflOne)
    + (IF cflMax[1] % CflOne = 0 /\ cflMax[2] > 0 THEN 1 ELSE 0)

Neighbours(idx) ==
  {n \in Cells : Abs(n[1] - idx[1]) + Abs(n[2] - idx[2]) = 1}

RECURSIVE SumOver(_, _)
SumOver(d, cs) ==
  IF cs = {} THEN 0
  ELSE LET c == CHOOSE x \in cs : TRUE IN d[c] + SumOver(d, cs \ {c})

\* extrapolateToRegion: layer by layer, every invalid cell with valid
\* neighbours takes their average and becomes valid.
RECURSIVE ExtrapolateToRegion(_, _, _)
ExtrapolateToRegion(d, marker, depth) ==
  IF depth = 0 THEN d
  ELSE LET valid(idx) == {n \in Neighbours(idx) : marker[n] = 1}
           fill == {idx \in Cells : marker[idx] = 0 /\ valid(idx) # {}}
           d1 == [idx \in Cells |->
                    IF idx \in fill
                    THEN SumOver(d, valid(idx)) \div Cardinality(valid(idx))
                    ELSE d[idx]]
           m1 == [idx \in Cells |-> IF idx \in fill THEN 1 ELSE marker[idx]]
       IN  ExtrapolateToRegion(d1, m1, depth - 1)

\* ------------------------------------------------------------- inputs
ZeroVelocity == [u |-> [f \in UFaces |-> 0], v |-> [f \in VFaces |-> 0]]

\* Velocity fields the client may have written: uniform (k = 0) or with the
\* sign alternating from face to face (k = 1).
VelocityField(a, b, k) ==
  [u |-> [f \in UFaces |-> IF k = 1 /\ (f[1] + f[2]) % 2 = 1 THEN -a ELSE a],
   v |-> [f \in VFaces |-> IF k = 1 /\ (f[1] + f[2]) % 2 = 1 THEN -b ELSE b]]

VelocityInputs ==
  {ZeroVelocity,
   VelocityField(1, 0, 0),
   VelocityField(-MaxSpeed, MaxSpeed, 0),
   VelocityField(MaxSpeed, -1, 1)}

\* Density fields the client may have written (the window writes every
\* cell, ghost cells included).  Seed 0 is the field with one cell at 1.0.
DensityField(seed) ==
  [c \in Cells |->
     IF seed = 0
     THEN (IF c = <<1, 3>> THEN DensityOne ELSE 0)
     ELSE (seed * (3 * c[1] + 5 * c[2] + 1) + c[1] * c[2]) % (DensityOne + 1)]

GravityInputs == {<<0, 0>>, <<1, 0>>, DefaultGravity}
\* negative, zero, a positive value below eps, a value above eps
ViscosityInputs == {-1, 0, 1, Eps + 1}
\* -0.5, 0, half of eps, 1.5
MaxCflInputs == {<<-1, 0>>, <<0, 0>>, <<0, 1>>, <<CflOne + 1, 0>>}

\* -------------------------------------------------------------- state
VARIABLES
  density,                  \* _density: [Cells -> Int]
  velocity,                 \* _velocity: [u : [UFaces -> Int], v : [VFaces -> Int]]
  gravity,                  \* _gravity
  viscosityCoefficient,     \* _viscosityCoefficient
  maxCfl,                   \* _maxCfl
  collider,                 \* _collider: whether attached, the last update's
                            \* arguments, and whether the boundary condition
                            \* solver holds its rasterized signed distance
  animation,                \* PhysicsAnimation: fixed flag, fixed count, frame, time
  window,                   \* GLSimulationWindow: _useAdaptiveTimeStepping, ...,
                            \* _dragFlags, _source_pos, _pivotX/Y, _mouseX/Y
  pc,                       \* where the driver and the solver are
  ip,                       \* the stage of onAdvanceTimeStep to run next
  sub,                      \* advanceTimeStep: sub-steps left and their interval
  log,                      \* calls made by the running (or last) solver operation
  snap,                     \* the fields when that operation started
  stats                     \* counts kept for the properties

vars ==
  <<density, velocity, gravity, viscosityCoefficient, maxCfl, collider,
    animation, window, pc, ip, sub, log, snap, stats>>

NoStats ==
  [clientCalls |-> 0, initCount |-> 0, frameSubSteps |-> 0, usedCfl |-> FALSE,
   lastViscosityArg |-> <<>>, sampled |-> {},
   marker |-> <<>>, depth |-> 0, extrapolated |-> <<>>,
   advected |-> {}, refreshed |-> {}, outside |-> {}]

\* The state after GridSolver's constructor (adaptive sub-stepping, default
\* members), a client having written the fields and possibly attached a
\* collider.
Constructed(d, vel, att) ==
  /\ density = d
  /\ velocity = vel
  /\ gravity = DefaultGravity
  /\ viscosityCoefficient = 0
  /\ maxCfl = DefaultMaxCfl
  /\ collider = [attached |-> att, lastUpdate |-> <<>>, rasterized |-> FALSE]
  /\ animation = [isUsingFixedSubTimeSteps |-> FALSE,
                  numberOfFixedSubTimeSteps |-> 1,
                  currentFrame |-> -1,
                  currentTime |-> 0]
  /\ ip = 1
  /\ sub = [left |-> 0, dt |-> 0]
  /\ log = <<>>
  /\ snap = [density |-> d, velocity |-> vel]
  /\ stats = NoStats

WindowDefaults ==
  [useAdaptiveTimeStepping |-> FALSE,
   numberOfFixedSubTimeSteps |-> GuiDefaultSubTimeSteps,
   ready |-> FALSE,
   building |-> FALSE,
   dragSource |-> FALSE,
   dragForce |-> FALSE,
   sourcePos |-> <<-1, -1>>,
   pivot |-> <<>>,
   mouse |-> <<>>,
   forceDir |-> <<>>]

\* A solver used through its interface by a client.
Init ==
  /\ \E seed \in 0..MaxSeed, vel \in VelocityInputs, att \in BOOLEAN :
       Constructed(DensityField(seed), vel, att)
  /\ window = [WindowDefaults EXCEPT !.ready = TRUE]
  /\ pc = "idle"

ZeroDensity == [c \in Cells |-> 0]

\* The window after its initialize(), before "Build Solver" is pressed.
InitWindow ==
  /\ Constructed(ZeroDensity, ZeroVelocity, FALSE)
  /\ window = WindowDefaults
  /\ pc = "gui"

\* ------------------------------------------------- the solver's setters
\* The setters and setCollider assign whenever they are called: by a client
\* between the solver's operations, or inside a step by a stage or hook that
\* a derived class overrides.  A run makes at most MaxClientCalls such calls.
Configurable ==
  /\ pc \in {"idle", "step"}
  /\ stats.clientCalls < MaxClientCalls

ClientCall(st) == [st EXCEPT !.clientCalls = @ + 1]

SetGravity(g) ==
  /\ Configurable
  /\ gravity' = g
  /\ stats' = ClientCall(stats)
  /\ UNCHANGED <<density, velocity, viscosityCoefficient, maxCfl, collider,
                 animation, window, pc, ip, sub, log, snap>>

SetViscosityCoefficient(viscosity) ==
  /\ Configurable
  /\ viscosityCoefficient' = ClampViscosity(viscosity)
  /\ stats' = [ClientCall(stats) EXCEPT !.lastViscosityArg = <<viscosity>>]
  /\ UNCHANGED <<density, velocity, gravity, maxCfl, collider,
                 animation, window, pc, ip, sub, log, snap>>

SetMaxCfl(newCfl) ==
  /\ Configurable
  /\ maxCfl' = ClampMaxCfl(newCfl)
  /\ stats' = ClientCall(stats)
  /\ UNCHANGED <<density, velocity, gravity, viscosityCoefficient, collider,
                 animation, window, pc, ip, sub, log, snap>>

\* setCollider(collider): the pointer is assigned; the collider object keeps
\* its own state and the rasterized signed distance stays until the next
\* beginAdvanceTimeStep.  The argument is the box or nullptr.
SetCollider(att) ==
  /\ Configurable
  /\ collider' = [collider EXCEPT !.attached = att]
  /\ stats' = ClientCall(stats)
  /\ UNCHANGED <<density, velocity, gravity, viscosityCoefficient, maxCfl,
                 animation, window, pc, ip, sub, log, snap>>

\* PhysicsAnimation::setIsUsingFixedSubTimeSteps
SetIsUsingFixedSubTimeSteps(b) ==
  /\ Configurable
  /\ animation' = [animation EXCEPT !.isUsingFixedSubTimeSteps = b]
  /\ stats' = ClientCall(stats)
  /\ UNCHANGED <<density, velocity, gravity, viscosityCoefficient, maxCfl,
                 collider, window, pc, ip, sub, log, snap>>

\* PhysicsAnimation::setNumberOfSubTimeSteps
SetNumberOfSubTimeSteps(k) ==
  /\ Configurable
  /\ animation' = [animation EXCEPT !.numberOfFixedSubTimeSteps = k]
  /\ stats' = ClientCall(stats)
  /\ UNCHANGED <<density, velocity, gravity, viscosityCoefficient, maxCfl,
                 collider, window, pc, ip, sub, log, snap>>

\* ------------------------------------------------ PhysicsAnimation
\* advanceFrame(frame) with the next frame: initialize() runs first when no
\* frame has been advanced yet, then advanceTimeStep.
StartAdvanceFrame ==
  /\ animation.currentFrame + 1 < MaxFrames
  /\ pc' = IF animation.currentFrame < 0 THEN "initialize" ELSE "advanceTimeStep"
  /\ stats' = [stats EXCEPT !.frameSubSteps = 0, !.usedCfl = FALSE]

AdvanceFrame ==
  /\ pc = "idle"
  /\ StartAdvanceFrame
  /\ UNCHANGED <<density, velocity, gravity, viscosityCoefficient, maxCfl,
                 collider, animation, window, ip, sub, log, snap>>

\* GridSolver::initialize
Initialize ==
  /\ pc = "initialize"
  /\ collider' = InitializeCollider(collider, animation.currentTime)
  /\ log' = <<"initialize">> \o UpdateColliderEvents(collider) \o <<"updateEmitter">>
  /\ snap' = [density |-> density, velocity |-> velocity]
  /\ stats' = [stats EXCEPT !.initCount = @ + 1]
  /\ pc' = "advanceTimeStep"
  /\ UNCHANGED <<density, velocity, gravity, viscosityCoefficient, maxCfl,
                 animation, window, ip, sub>>

\* The sub-steps of a frame: the fixed count, or a count from the CFL number.
SubTimeSteps ==
  IF animation.isUsingFixedSubTimeSteps
  THEN {animation.numberOfFixedSubTimeSteps}
  ELSE NumberOfSubTimeSteps(velocity, gravity, maxCfl, FrameDt)

\* PhysicsAnimation::advanceTimeStep: the interval is divided into equal
\* sub-intervals and onAdvanceTimeStep is called for the first.  A frame whose
\* CFL computation gives no sub-step, or more than MaxSubSteps, is not
\* explored.
AdvanceTimeStep ==
  /\ pc = "advanceTimeStep"
  /\ \E n \in SubTimeSteps :
       /\ n >= 1
       /\ n <= MaxSubSteps \/ animation.isUsingFixedSubTimeSteps
       /\ sub' = [left |-> n, dt |-> FrameDt \div n]
  /\ stats' = [stats EXCEPT !.usedCfl = ~animation.isUsingFixedSubTimeSteps]
  /\ pc' = "step"
  /\ ip' = 1
  /\ log' = <<>>
  /\ snap' = [density |-> density, velocity |-> velocity]
  /\ UNCHANGED <<density, velocity, gravity, viscosityCoefficient, maxCfl,
                 collider, animation, window>>

\* ------------------------------------------- onAdvanceTimeStep's stages
AtStage(name) ==
  /\ pc = "step"
  /\ OnAdvanceTimeStepStages[ip] = name

\* The stage returns: the next one runs, or onAdvanceTimeStep has returned.
StageReturn ==
  IF ip < Len(OnAdvanceTimeStepStages)
  THEN pc' = "step" /\ ip' = ip + 1
  ELSE pc' = "stepDone" /\ ip' = ip

BeginAdvanceTimeStep ==
  /\ AtStage("beginAdvanceTimeStep")
  /\ collider' = [UpdateCollider(collider, animation.currentTime, sub.dt)
                   EXCEPT !.rasterized = collider.attached]
  /\ density' = ApplyBoundaryCondition(density)
  /\ log' = log \o <<"beginAdvanceTimeStep">> \o UpdateColliderEvents(collider)
              \o <<"updateEmitter", "bc.updateCollider", "applyBoundaryCondition",
                   "onBeginAdvanceTimeStep">>
  /\ StageReturn
  /\ UNCHANGED <<velocity, gravity, viscosityCoefficient, maxCfl,
                 animation, window, sub, snap, stats>>

ComputeSource ==
  /\ AtStage("computeSource")
  /\ density' = ApplyBoundaryCondition(density)
  /\ log' = log \o <<"computeSource", "applyBoundaryCondition">>
  /\ StageReturn
  /\ UNCHANGED <<velocity, gravity, viscosityCoefficient, maxCfl, collider,
                 animation, window, sub, snap, stats>>

ComputeViscosity ==
  /\ AtStage("computeViscosity")
  /\ IF ViscosityActive(viscosityCoefficient)
     THEN /\ velocity' = DiffusionSolve(velocity, viscosityCoefficient, sub.dt)
          /\ density' = ApplyBoundaryCondition(density)
          /\ log' = log \o <<"computeViscosity", "diffusion.solve",
                             "applyBoundaryCondition">>
     ELSE /\ UNCHANGED <<velocity, density>>
          /\ log' = log \o <<"computeViscosity">>
  /\ StageReturn
  /\ UNCHANGED <<gravity, viscosityCoefficient, maxCfl, collider,
                 animation, window, sub, snap, stats>>

ComputePressure ==
  /\ AtStage("computePressure")
  /\ \E out \in PressureOutcomes(velocity) :
       /\ velocity' = out
       /\ log' = log \o <<"computePressure", "pressure.solve">>
                     \o (IF out = velocity THEN <<>> ELSE <<"velocity.changed">>)
                     \o <<"applyBoundaryCondition">>
  /\ density' = ApplyBoundaryCondition(density)
  /\ StageReturn
  /\ UNCHANGED <<gravity, viscosityCoefficient, maxCfl, collider,
                 animation, window, sub, snap, stats>>

ComputeAdvectionStage ==
  /\ AtStage("computeAdvection")
  /\ density' = ComputeAdvection(density, velocity, sub.dt)
  /\ stats' = [stats EXCEPT !.sampled = SweepPoints(velocity, sub.dt)]
  /\ log' = log \o <<"computeAdvection", "advectDensity", "applyBoundaryCondition">>
  /\ StageReturn
  /\ UNCHANGED <<velocity, gravity, viscosityCoefficient, maxCfl, collider,
                 animation, window, sub, snap>>

EndAdvanceTimeStep ==
  /\ AtStage("endAdvanceTimeStep")
  /\ log' = log \o <<"endAdvanceTimeStep", "onEndAdvanceTimeStep">>
  /\ StageReturn
  /\ UNCHANGED <<density, velocity, gravity, viscosityCoefficient, maxCfl,
                 collider, animation, window, sub, snap, stats>>

\* PhysicsAnimation::advanceTimeStep after onAdvanceTimeStep returned: time
\* moves on by the sub-interval; the next sub-step starts, or the frame is
\* complete.
OnAdvanceTimeStepReturn ==
  /\ pc = "stepDone"
  /\ stats' = [stats EXCEPT !.frameSubSteps = @ + 1, !.marker = <<>>,
                            !.depth = 0, !.extrapolated = <<>>]
  /\ sub' = [sub EXCEPT !.left = @ - 1]
  /\ IF sub.left > 1
     THEN /\ animation' = [animation EXCEPT !.currentTime = @ + sub.dt]
          /\ pc' = "step"
          /\ ip' = 1
          /\ log' = <<>>
          /\ snap' = [density |-> density, velocity |-> velocity]
     ELSE /\ animation' = [animation EXCEPT !.currentTime = @ + sub.dt,
                                            !.currentFrame = @ + 1]
          /\ pc' = IF window.building THEN "postBuild" ELSE "idle"
          /\ UNCHANGED <<ip, log, snap>>
  /\ UNCHANGED <<density, velocity, gravity, viscosityCoefficient, maxCfl,
                 collider, window>>

\* extrapolateIntoCollider(grid), as a stage of a derived class may call it
\* at the end of a step on a grid of its own, here a copy of the density:
\* the marker, the depth and the grid extrapolateToRegion leaves.
ExtrapolateIntoCollider ==
  /\ pc = "stepDone"
  /\ stats.marker = <<>>
  /\ stats' = [stats EXCEPT
                 !.marker = ColliderMarker(collider),
                 !.depth = ExtrapolationDepth(maxCfl),
                 !.extrapolated =
                    ExtrapolateToRegion(density, ColliderMarker(collider),
                                        ExtrapolationDepth(maxCfl))]
  /\ UNCHANGED <<density, velocity, gravity, viscosityCoefficient, maxCfl,
                 collider, animation, window, pc, ip, sub, log, snap>>

StepActions ==
  \/ Initialize
  \/ AdvanceTimeStep
  \/ BeginAdvanceTimeStep
  \/ ComputeSource
  \/ ComputeViscosity
  \/ ComputePressure
  \/ ComputeAdvectionStage
  \/ EndAdvanceTimeStep
  \/ OnAdvanceTimeStepReturn

Next ==
  \/ \E g \in GravityInputs : SetGravity(g)
  \/ \E v \in ViscosityInputs : SetViscosityCoefficient(v)
  \/ \E c \in MaxCflInputs : SetMaxCfl(c)
  \/ \E att \in BOOLEAN : SetCollider(att)
  \/ \E b \in BOOLEAN : SetIsUsingFixedSubTimeSteps(b)
  \/ \E k \in 1..MaxSubSteps : SetNumberOfSubTimeSteps(k)
  \/ AdvanceFrame
  \/ StepActions
  \/ ExtrapolateIntoCollider

Spec == Init /\ [][Next]_vars

\* ------------------------------------------------- GLSimulationWindow
\* gui(): the button that switches between adaptive and fixed sub-stepping
GuiToggleAdaptive ==
  /\ pc = "gui"
  /\ window' = [window EXCEPT !.useAdaptiveTimeStepping = ~@]
  /\ UNCHANGED <<density, velocity, gravity, viscosityCoefficient, maxCfl,
                 collider, animation, pc, ip, sub, log, snap, stats>>

\* gui(): the "Number of SubTimeSteps" drag, shown for fixed sub-stepping
GuiDragSubSteps(k) ==
  /\ pc = "gui"
  /\ ~window.useAdaptiveTimeStepping
  /\ window' = [window EXCEPT !.numberOfFixedSubTimeSteps = k]
  /\ UNCHANGED <<density, velocity, gravity, viscosityCoefficient, maxCfl,
                 collider, animation, pc, ip, sub, log, snap, stats>>

\* buildSolver's density: func3 (the height clamped to [0, 1]) of a position
\* computed from the running element number i, 0.5 for the first elements,
\* and 1.0 at cell (1, 3).
PositionOne == (SolverN * Spacing) \div 2

WindowDensity ==
  [c \in Cells |->
     LET i == c[2] * FieldSize + c[1]
         y == FieldOrigin + (i % SolverSize[2]) * Spacing
         h == Max(0, Min(y, PositionOne))
     IN  IF c = <<1, 3>> THEN DensityOne
         ELSE IF i + 1 < SolverSize[1] \div 2 THEN DensityOne \div 2
         ELSE (h * DensityOne) \div PositionOne]

\* buildSolver up to its advanceFrame call: a new solver, its density, the
\* gravity and viscosity of the gui, and the first frame.
BuildSolver(g, viscosity) ==
  /\ pc = "gui"
  /\ window' = [window EXCEPT !.ready = TRUE, !.building = TRUE]
  /\ density' = WindowDensity
  /\ gravity' = g
  /\ viscosityCoefficient' = ClampViscosity(viscosity)
  /\ StartAdvanceFrame
  /\ UNCHANGED <<velocity, maxCfl, collider, animation, ip, sub, log, snap>>

\* buildSolver after its advanceFrame call: the sub-stepping of the gui is
\* handed to the solver.
BuildSolverFinish ==
  /\ pc = "postBuild"
  /\ animation' = [animation EXCEPT
                     !.isUsingFixedSubTimeSteps = ~window.useAdaptiveTimeStepping,
                     !.numberOfFixedSubTimeSteps = window.numberOfFixedSubTimeSteps]
  /\ window' = [window EXCEPT !.building = FALSE]
  /\ pc' = "idle"
  /\ UNCHANGED <<density, velocity, gravity, viscosityCoefficient, maxCfl,
                 collider, ip, sub, log, snap, stats>>

\* The "Advance" button, and renderScene when not paused.
GuiAdvance ==
  /\ pc = "idle"
  /\ window.ready
  /\ StartAdvanceFrame
  /\ UNCHANGED <<density, velocity, gravity, viscosityCoefficient, maxCfl,
                 collider, animation, window, ip, sub, log, snap>>

NextWindow ==
  \/ GuiToggleAdaptive
  \/ \E k \in 1..MaxSubSteps : GuiDragSubSteps(k)
  \/ \E g \in GravityInputs, v \in {0, Eps + 1} : BuildSolver(g, v)
  \/ BuildSolverFinish
  \/ GuiAdvance
  \/ StepActions

SpecWindow == InitWindow /\ [][NextWindow]_vars

\* ---------------------------------------------- external forces
\* computeExternalForces(dt), as a class derived from the solver may call
\* it: computeGravity, which reapplies the boundary condition after it has
\* added the gravity.
ComputeExternalForces(dt) ==
  /\ pc = "idle"
  /\ SeqCount(log, "computeGravity") < MaxGravityCalls
  /\ velocity' = ComputeGravity(velocity, gravity, dt)
  /\ density' = IF GravityActive(gravity)
                THEN ApplyBoundaryCondition(density) ELSE density
  /\ log' = log \o <<"computeGravity">>
                \o (IF GravityActive(gravity)
                    THEN <<"applyBoundaryCondition">> ELSE <<>>)
  /\ snap' = [density |-> density, velocity |-> velocity]
  /\ sub' = [left |-> 0, dt |-> dt]
  /\ UNCHANGED <<gravity, viscosityCoefficient, maxCfl, collider, animation,
                 window, pc, ip, stats>>

\* The gravities of the setters, and gravities with both components set.
ForceGravityInputs == GravityInputs \cup {<<1, -98>>, <<-3, 2>>}

ForceIntervals == {FrameDt \div 2, FrameDt}

NextForces ==
  \/ \E g \in ForceGravityInputs : SetGravity(g)
  \/ \E dt \in ForceIntervals : ComputeExternalForces(dt)

SpecForces == Init /\ [][NextForces]_vars

\* ------------------------------------------------ the window's mouse
\* The conversion of a float quotient to int: towards zero.
TruncDiv(a, b) == IF a >= 0 THEN a \div b ELSE -((-a) \div b)

\* The pixels of the window, where a button event finds the cursor, and the
\* positions a move event may report: a drag holds the mouse, so they may
\* lie outside the window, beyond either corner.
CursorPositions == (0..(WinWidth - 1)) \X (0..(WinHeight - 1))

MovePositions ==
  CursorPositions \cup {<<-1, -1>>, <<WinWidth, WinHeight>>}

\* mouseToGridIndex(): the index under the cursor, with w = width() - 1 and
\* h = height(); no range check.
MouseToGridIndexAtCursor(cursor) ==
  <<TruncDiv(SolverSize[1] * cursor[1], WinWidth - 1),
    TruncDiv(SolverSize[2] * (WinHeight - cursor[2]), WinHeight)>>

\* mouseToGridIndex(xPos, yPos): a component outside 0..size-1 becomes -1.
MouseToGridIndex(pos) ==
  LET i == TruncDiv(SolverSize[1] * pos[1], WinWidth - 1)
      j == TruncDiv(SolverSize[2] * (WinHeight - pos[2]), WinHeight)
  IN  <<IF i < 0 \/ i > SolverSize[1] - 1 THEN -1 ELSE i,
        IF j < 0 \/ j > SolverSize[2] - 1 THEN -1 ELSE j>>

\* mouseMoveEvent moving the source under any drag
MovesSourceAnyDrag(w) == w.dragSource \/ w.dragForce

\* mouseMoveEvent: _dragFlags.isSet(DragBits::Source)
MovesSource(w) == w.dragSource

\* bool(_dragFlags)
Dragging(w) == w.dragSource \/ w.dragForce

MouseButtons == {"left", "right", "middle"}

\* The handlers run from the window's event loop, before "Build Solver" and
\* after it, between two calls of gui() and renderScene(); neither looks at
\* _ready.
EventLoop == pc \in {"gui", "idle"}

MouseActions == {"press", "release"}

\* mouseButtonInputEvent(button, actions, mods) with the cursor at the given
\* pixel; wantCapture is ImGui's WantCaptureMouse.
MouseButtonInputEvent(button, actions, wantCapture, cursor) ==
  /\ EventLoop
  /\ IF wantCapture
     THEN window' = window
     ELSE LET active == actions = "press"
              w1 == IF button = "right"
                    THEN [window EXCEPT !.dragForce = active]
                    ELSE IF button = "left" /\ actions = "release"
                    THEN [window EXCEPT !.dragSource = FALSE,
                                        !.sourcePos = <<-1, -1>>]
                    ELSE IF button = "left"
                    THEN [window EXCEPT
                            !.dragSource = active,
                            !.sourcePos = MouseToGridIndexAtCursor(cursor)]
                    ELSE window
              w2 == IF Dragging(w1) THEN [w1 EXCEPT !.pivot = cursor] ELSE w1
          IN  window' = w2
  /\ UNCHANGED <<density, velocity, gravity, viscosityCoefficient, maxCfl,
                 collider, animation, pc, ip, sub, log, snap, stats>>

\* mouseMoveEvent(xPos, yPos); the solver exists since initialize().
MouseMoveEvent(pos) ==
  /\ EventLoop
  /\ IF ~Dragging(window)
     THEN window' = window
     ELSE LET dx == window.pivot[1] - pos[1]
              dy == window.pivot[2] - pos[2]
              w1 == [window EXCEPT !.mouse = pos, !.pivot = pos]
              w2 == IF (dx # 0 \/ dy # 0) /\ MovesSource(w1)
                    THEN [w1 EXCEPT !.sourcePos = MouseToGridIndex(pos)]
                    ELSE w1
              w3 == IF (dx # 0 \/ dy # 0) /\ w2.dragForce
                    THEN [w2 EXCEPT !.forceDir = <<dx, dy>>]
                    ELSE w2
          IN  window' = w3
  /\ UNCHANGED <<density, velocity, gravity, viscosityCoefficient, maxCfl,
                 collider, animation, pc, ip, sub, log, snap, stats>>

\* The window with its mouse: the events, before and after "Build Solver"
\* with the defaults of the gui.  An event the gui captures returns before
\* the cursor is looked at.
NextMouse ==
  \/ \E button \in MouseButtons, actions \in MouseActions,
        cursor \in CursorPositions :
       MouseButtonInputEvent(button, actions, FALSE, cursor)
  \/ \E button \in MouseButtons, actions \in MouseActions :
       MouseButtonInputEvent(button, actions, TRUE, <<0, 0>>)
  \/ \E pos \in MovePositions : MouseMoveEvent(pos)
  \/ BuildSolver(DefaultGravity, 0)
  \/ BuildSolverFinish
  \/ StepActions

SpecMouse == InitWindow /\ [][NextMouse]_vars

\* ------------------------------------------- solvers of any size
\* GridSolver(size, spacing, origin) with size = (Nx, Ny): the cells of the
\* fields, which get size + 2 per axis.
RectCells(size) == (0..(size[1] + 1)) \X (0..(size[2] + 1))

RectInterior(size) == (1..size[1]) \X (1..size[2])

RectGhost(size) == RectCells(size) \ RectInterior(size)

RectUFaces(size) == (0..(size[1] + 2)) \X (0..(size[2] + 1))

RectVFaces(size) == (0..(size[1] + 1)) \X (0..(size[2] + 2))

SizeInputs == (1..MaxSide) \X (1..MaxSide)

\* size(): _solverSize, which the constructor sets to the fields' size less
\* the ghost border.
SizeOfField(d) == CHOOSE size \in SizeInputs : DOMAIN d = RectCells(size)

\* operator[] and velocityAt do not check their index: an index outside the
\* field reads whatever the memory holds, and a write through it does not
\* reach the field.
ReadAt(d, idx, garbage) == IF idx \in DOMAIN d THEN d[idx] ELSE garbage

WriteAt(d, idx, val) == IF idx \in DOMAIN d THEN [d EXCEPT ![idx] = val] ELSE d

\* The loop of applyBoundaryCondition, i = 1..N with N = size().x.
RECURSIVE RectBoundaryLoop(_, _, _, _)
RectBoundaryLoop(d, i, n, g) ==
  IF i > n THEN d
  ELSE LET d1 == WriteAt(d,  <<0, i>>,     ReadAt(d,  <<1, i>>, g))
           d2 == WriteAt(d1, <<n + 1, i>>, ReadAt(d1, <<n, i>>, g))
           d3 == WriteAt(d2, <<i, 0>>,     ReadAt(d2, <<i, 1>>, g))
           d4 == WriteAt(d3, <<i, n + 1>>, ReadAt(d3, <<i, n>>, g))
       IN  RectBoundaryLoop(d4, i + 1, n, g)

\* applyBoundaryCondition on a solver of the given size
RectApplyBoundaryCondition(d, size, g) ==
  LET n  == size[1]
      e  == RectBoundaryLoop(d, 1, n, g)
      c1 == WriteAt(e, <<0, 0>>,
                    Half(ReadAt(e, <<1, 0>>, g) + ReadAt(e, <<0, 1>>, g)))
      c2 == WriteAt(c1, <<0, n + 1>>,
                    Half(ReadAt(c1, <<1, n + 1>>, g) + ReadAt(c1, <<0, n>>, g)))
      c3 == WriteAt(c2, <<n + 1, 0>>,
                    Half(ReadAt(c2, <<n, 0>>, g) + ReadAt(c2, <<n + 1, 1>>, g)))
      c4 == WriteAt(c3, <<n + 1, n + 1>>,
                    Half(ReadAt(c3, <<n, n + 1>>, g) + ReadAt(c3, <<n + 1, n>>, g)))
  IN  c4

\* The indices applyBoundaryCondition writes, and those it reads.
BoundaryWritten(size) ==
  LET n == size[1]
  IN  UNION {{<<0, i>>, <<n + 1, i>>, <<i, 0>>, <<i, n + 1>>} : i \in 1..n}
        \cup {<<0, 0>>, <<0, n + 1>>, <<n + 1, 0>>, <<n + 1, n + 1>>}

BoundaryRead(size) ==
  LET n == size[1]
  IN  UNION {{<<1, i>>, <<n, i>>, <<i, 1>>, <<i, n>>} : i \in 1..n}
        \cup {<<1, 0>>, <<0, 1>>, <<1, n + 1>>, <<0, n>>,
               <<n, 0>>, <<n + 1, 1>>, <<n, n + 1>>, <<n + 1, n>>}

\* The indices computeAdvection calls advectDensity with: both loops run
\* over 1..N with N = size().x.
AdvectionWritten(size) == (1..size[1]) \X (1..size[1])

\* sample() on a field of the given size, one axis and the interpolation.
RectAxisCell(p, cells) ==
  LET r == Max(0, Min(p - FieldOrigin, (cells - 1) * Spacing))
      i == Min(r \div Spacing, cells - 2)
  IN  [i |-> i, f |-> r - i * Spacing]

RectSample(d, size, p) ==
  LET ax == RectAxisCell(p[1], size[1] + 2)
      ay == RectAxisCell(p[2], size[2] + 2)
      i == ax.i
      j == ay.i
      fx == ax.f
      fy == ay.f
  IN  ( (Spacing - fx) * (Spacing - fy) * d[<<i, j>>]
      + fx * (Spacing - fy) * d[<<i + 1, j>>]
      + (Spacing - fx) * fy * d[<<i, j + 1>>]
      + fx * fy * d[<<i + 1, j + 1>>] ) \div (Spacing * Spacing)

\* advectDensity on a solver of the given size
RectAdvectDensity(d, vel, size, idx, dt, g) ==
  LET velx == ReadAt(vel.u, idx, g)
      vely == ReadAt(vel.v, idx, g)
      pos  == DataPosition(idx)
      minX == FieldOrigin + Spacing
      maxX == FieldOrigin + size[1] * Spacing
      minY == FieldOrigin + Spacing
      maxY == FieldOrigin + size[2] * Spacing
      newPos == <<ClampAxis(pos[1] - velx * dt, minX, maxX),
                  ClampAxis(pos[2] - vely * dt, minY, maxY)>>
  IN  WriteAt(d, idx, RectSample(d, size, newPos))

RECURSIVE RectAdvectionLoop(_, _, _, _, _, _, _)
RectAdvectionLoop(d, vel, size, dt, x, y, g) ==
  LET n == size[1]
  IN  IF y > n THEN d
      ELSE IF x > n THEN RectAdvectionLoop(d, vel, size, dt, 1, y + 1, g)
      ELSE RectAdvectionLoop(RectAdvectDensity(d, vel, size, <<x, y>>, dt, g),
                             vel, size, dt, x + 1, y, g)

\* computeAdvection on a solver of the given size
RectComputeAdvection(d, vel, size, dt, g) ==
  RectApplyBoundaryCondition(
    RectAdvectionLoop(d, vel, size, dt, 1, 1, g), size, g)

\* The fields a client has written into a solver of the given size.
RectDensity(size, seed) ==
  [c \in RectCells(size) |->
     (seed * (3 * c[1] + 5 * c[2] + 1) + c[1] * c[2]) % (DensityOne + 1)]

RectVelocity(size, a) ==
  [u |-> [f \in RectUFaces(size) |-> a], v |-> [f \in RectVFaces(size) |-> 0]]

\* What a read outside a field may return.
Garbage == {0, DensityOne}

InitSizes ==
  /\ \E size \in SizeInputs, seed \in 0..MaxSeed, a \in {0, 1} :
       Constructed(RectDensity(size, seed), RectVelocity(size, a), FALSE)
  /\ window = [WindowDefaults EXCEPT !.ready = TRUE]
  /\ pc = "sized"

\* A call that touches indices outside the fields has undefined behaviour:
\* it may end the program, or go on with what the reads returned.
SizedOutcome(outside, crashed) ==
  /\ outside = {} => ~crashed
  /\ pc' = IF crashed THEN "undefined" ELSE "sized"

\* applyBoundaryCondition on its own (computeSource)
SizedComputeSource ==
  /\ pc = "sized"
  /\ SeqCount(log, "applyBoundaryCondition") < MaxSizedCalls
  /\ LET size == SizeOfField(density)
         outside == (BoundaryWritten(size) \cup BoundaryRead(size))
                      \ RectCells(size)
     IN  /\ \E g \in Garbage, crashed \in BOOLEAN :
              /\ outside = {} => g = 0
              /\ SizedOutcome(outside, crashed)
              /\ density' = RectApplyBoundaryCondition(density, size, g)
         /\ stats' = [stats EXCEPT !.advected = {},
                                   !.refreshed = BoundaryWritten(size),
                                   !.outside = outside]
  /\ log' = log \o <<"computeSource", "applyBoundaryCondition">>
  /\ snap' = [density |-> density, velocity |-> velocity]
  /\ UNCHANGED <<velocity, gravity, viscosityCoefficient, maxCfl, collider,
                 animation, window, ip, sub>>

\* computeAdvection(dt)
SizedComputeAdvection(dt) ==
  /\ pc = "sized"
  /\ SeqCount(log, "applyBoundaryCondition") < MaxSizedCalls
  /\ LET size == SizeOfField(density)
         outside == (AdvectionWritten(size) \cup BoundaryWritten(size)
                       \cup BoundaryRead(size)) \ RectCells(size)
     IN  /\ \E g \in Garbage, crashed \in BOOLEAN :
              /\ outside = {} => g = 0
              /\ SizedOutcome(outside, crashed)
              /\ density' = RectComputeAdvection(density, velocity, size, dt, g)
         /\ stats' = [stats EXCEPT !.advected = AdvectionWritten(size),
                                   !.refreshed = BoundaryWritten(size),
                                   !.outside = outside]
  /\ log' = log \o <<"computeAdvection", "advectDensity", "applyBoundaryCondition">>
  /\ snap' = [density |-> density, velocity |-> velocity]
  /\ sub' = [left |-> 0, dt |-> dt]
  /\ UNCHANGED <<velocity, gravity, viscosityCoefficient, maxCfl, collider,
                 animation, window, ip>>

NextSizes ==
  \/ SizedComputeSource
  \/ \E dt \in ForceIntervals : SizedComputeAdvection(dt)

SpecSizes == InitSizes /\ [][NextSizes]_vars

\* ============================================================ claims
\* Where the solver is.
AfterStage(name) ==
  /\ pc = "step"
  /\ ip > 1
  /\ OnAdvanceTimeStepStages[ip - 1] = name

AfterDensityStep == pc = "step" /\ ip = Len(DensityStepStages) + 2

AfterVelocityStep == pc = "step" /\ ip = Len(OnAdvanceTimeStepStages)

\* onAdvanceTimeStep has returned and nothing has run since.
StepCompleted == pc = "stepDone"

\* Some onAdvanceTimeStep has completed and none is running.
BetweenSteps ==
  \/ pc = "stepDone"
  \/ pc \in {"idle", "postBuild", "advanceTimeStep"} /\ animation.currentFrame >= 0

InteriorRange == 1..SolverN

\* The ghost border of a density field: edge ghosts copy the adjacent
\* interior cell, corner ghosts are the average of their two edge-ghost
\* neighbours.
GhostBorderHolds(d) ==
  LET n == SolverN
  IN  /\ \A i \in InteriorRange :
           /\ d[<<0, i>>] = d[<<1, i>>]
           /\ d[<<n + 1, i>>] = d[<<n, i>>]
           /\ d[<<i, 0>>] = d[<<i, 1>>]
           /\ d[<<i, n + 1>>] = d[<<i, n>>]
      /\ d[<<0, 0>>] = Half(d[<<1, 0>>] + d[<<0, 1>>])
      /\ d[<<0, n + 1>>] = Half(d[<<1, n + 1>>] + d[<<0, n>>])
      /\ d[<<n + 1, 0>>] = Half(d[<<n, 0>>] + d[<<n + 1, 1>>])
      /\ d[<<n + 1, n + 1>>] = Half(d[<<n, n + 1>>] + d[<<n + 1, n>>])

\* C1: after beginAdvanceTimeStep, after densityStep, after velocityStep and
\* after every completed onAdvanceTimeStep, every edge ghost cell of the
\* density equals its adjacent interior cell and every ghost corner is the
\* average of its two adjacent edge ghosts, whatever the fields were.
C1_GhostBorder ==
  (\/ AfterStage("beginAdvanceTimeStep")
   \/ AfterDensityStep
   \/ AfterVelocityStep
   \/ BetweenSteps)
  => GhostBorderHolds(density)

\* A step has completed that started from a density whose border did not
\* satisfy the rule, under a moving velocity field.
C1_Witness ==
  /\ StepCompleted
  /\ ~GhostBorderHolds(snap.density)
  /\ snap.velocity # ZeroVelocity
  /\ \E c \in Interior : density[c] # snap.density[c]
  /\ GhostBorderHolds(density)

\* C2: with zero velocity, zero gravity and zero viscosity, one
\* onAdvanceTimeStep leaves every interior density cell at its value from
\* before the step.
C2_ZeroVelocityKeepsInterior ==
  (/\ StepCompleted
   /\ snap.velocity = ZeroVelocity
   /\ gravity = <<0, 0>>
   /\ viscosityCoefficient = 0)
  => \A c \in Interior : density[c] = snap.density[c]

\* Such a step has completed on a density that is not flat, and it changed
\* the ghost border.
C2_Witness ==
  /\ StepCompleted
  /\ snap.velocity = ZeroVelocity
  /\ gravity = <<0, 0>>
  /\ viscosityCoefficient = 0
  /\ \E c, e \in Interior : snap.density[c] # snap.density[e]
  /\ \E c \in Cells \ Interior : density[c] # snap.density[c]

\* C3: with gravity (0, -9.8), zero viscosity and a pressure solve that
\* leaves the field unchanged, one onAdvanceTimeStep of interval dt adds
\* dt * g_y to every velocity-y sample and leaves velocity-x unchanged.
C3_GravityApplied ==
  (/\ StepCompleted
   /\ gravity = DefaultGravity
   /\ viscosityCoefficient = 0
   /\ SeqCount(log, "velocity.changed") = 0)
  => /\ \A f \in VFaces : velocity.v[f] = snap.velocity.v[f] + sub.dt * gravity[2]
     /\ \A f \in UFaces : velocity.u[f] = snap.velocity.u[f]

\* The last argument of setViscosityCoefficient was not positive, or the
\* setter was never called.
ViscosityArgNotPositive ==
  \/ stats.lastViscosityArg = <<>>
  \/ stats.lastViscosityArg[1] <= 0

\* C4: after setViscosityCoefficient(v) with v <= 0, and with the default
\* coefficient, every computeViscosity stage leaves every velocity sample as
\* it was and does not invoke the diffusion solver.
C4_NoDiffusion ==
  [][(AtStage("computeViscosity") /\ ViscosityArgNotPositive)
       => (/\ velocity' = velocity
           /\ SeqCount(log', "diffusion.solve")
                = SeqCount(log, "diffusion.solve"))]_vars

\* A computeViscosity stage has run on a moving field after
\* setViscosityCoefficient was given a negative value.
C4_Witness ==
  /\ AfterStage("computeViscosity")
  /\ stats.lastViscosityArg = <<-1>>
  /\ velocity # ZeroVelocity
  /\ sub.dt > 0

\* The square of twice the largest magnitude of the cell-centre velocity.
MaxSpeedSquared4(vel) ==
  LET sq == {LET c == ValueAtCellCenter2(vel, idx)
             IN  c[1] * c[1] + c[2] * c[2] : idx \in Cells}
  IN  CHOOSE m \in sq : \A x \in sq : m >= x

\* C5: numberOfSubTimeSteps is at least 1, and of two solvers with the same
\* spacing, gravity, maxCfl and interval the one whose largest velocity
\* magnitude is larger never gets the smaller count.
C5_SubStepsMonotone ==
  /\ \A n \in NumberOfSubTimeSteps(velocity, gravity, maxCfl, FrameDt) : n >= 1
  /\ \A other \in VelocityInputs :
       MaxSpeedSquared4(other) >= MaxSpeedSquared4(velocity)
       => \A a \in NumberOfSubTimeSteps(other, gravity, maxCfl, FrameDt),
             b \in NumberOfSubTimeSteps(velocity, gravity, maxCfl, FrameDt) :
            a >= b

\* The range the claim gives for a sampled coordinate.
InsideByOneCell(x) ==
  /\ x >= FieldOrigin + Spacing
  /\ x <= FieldOrigin + (FieldSize - 2) * Spacing

\* C6: every point at which an advection sweep sampled the density lies, on
\* each axis, in [fieldOrigin + spacing, fieldOrigin + (fieldSize - 2) * spacing].
C6_SampleInsideByOneCell ==
  \A p \in stats.sampled : InsideByOneCell(p[1]) /\ InsideByOneCell(p[2])

\* A sweep under a velocity that carries the backtrace out of the field on
\* both sides has sampled at both ends of the range.
C6_Witness ==
  /\ AfterStage("computeAdvection")
  /\ \E c, e \in Interior :
       /\ velocity.u[c] * sub.dt > FieldSize * Spacing
       /\ velocity.u[e] * sub.dt < -(FieldSize * Spacing)
  /\ \E p, q \in stats.sampled :
       /\ p[1] = FieldOrigin + Spacing
       /\ q[1] = FieldOrigin + (FieldSize - 2) * Spacing

\* C7: with a collider attached, one onAdvanceTimeStep invokes the
\* collider's update exactly once.
C7_ColliderUpdatedOnce ==
  (StepCompleted /\ collider.attached)
  => SeqCount(log, "collider.update") = 1

\* C8: whatever the setters were given, viscosityCoefficient() >= 0 and
\* maxCfl() >= eps > 0, and viscosityCoefficient() is the last argument of
\* its setter when that was >= 0.
C8_SettersClamp ==
  /\ viscosityCoefficient >= 0
  /\ ~CflLess(maxCfl, CflEps)
  /\ CflLess(<<0, 0>>, maxCfl)
  /\ (stats.lastViscosityArg # <<>> /\ stats.lastViscosityArg[1] >= 0)
       => viscosityCoefficient = stats.lastViscosityArg[1]

\* Both setters have been given values they clamp.
C8_Witness ==
  /\ stats.lastViscosityArg = <<-1>>
  /\ viscosityCoefficient = 0
  /\ maxCfl = CflEps

\* C9: once the user of the window has chosen fixed sub-stepping with count
\* k, every completed frame, the one advanced by buildSolver included, ran
\* exactly k sub-steps and did not use the CFL computation.
C9_FixedSubSteps ==
  (/\ pc \in {"postBuild", "idle"}
   /\ animation.currentFrame >= 0
   /\ ~window.useAdaptiveTimeStepping)
  => /\ stats.frameSubSteps = window.numberOfFixedSubTimeSteps
     /\ ~stats.usedCfl

\* initialize() has just returned.
AfterInitialize == pc = "advanceTimeStep" /\ animation.currentFrame < 0

\* C10: initialize() updates the collider (when one is attached) and the
\* emitter with interval 0 and changes no velocity or density value; it has
\* run exactly once when the first onAdvanceTimeStep starts, and never runs
\* again.
C10_Initialize ==
  /\ stats.initCount <= 1
  /\ pc \in {"step", "stepDone"} => stats.initCount = 1
  /\ AfterInitialize =>
       /\ stats.initCount = 1
       /\ log = <<"initialize">> \o UpdateColliderEvents(collider) \o <<"updateEmitter">>
       /\ collider.attached => collider.lastUpdate = <<animation.currentTime, 0>>
       /\ density = snap.density
       /\ velocity = snap.velocity

\* initialize() has returned on a solver with a collider and a moving field.
C10_Witness ==
  /\ AfterInitialize
  /\ collider.attached
  /\ collider.lastUpdate = <<0, 0>>
  /\ velocity # ZeroVelocity

\* C11: whatever setters, initialize and onAdvanceTimeStep calls are made,
\* the density keeps its gridSize + 2 cells per axis and the velocity its
\* face samples over the same cells: no operation resizes or reallocates a
\* field, only the stored values change.  (size(), the spacing and the origin
\* are SolverSize, Spacing and FieldOrigin, which no operation writes.)
C11_SizesFixed ==
  /\ DOMAIN density = Cells
  /\ DOMAIN velocity.u = UFaces
  /\ DOMAIN velocity.v = VFaces
  /\ Cardinality(DOMAIN density) = (SolverSize[1] + 2) * (SolverSize[2] + 2)
  /\ DataPosition(<<0, 0>>) = <<GridOrigin - Spacing, GridOrigin - Spacing>>

\* A step has completed after the setters were used, and it changed values
\* of both fields.
C11_Witness ==
  /\ StepCompleted
  /\ gravity # DefaultGravity
  /\ stats.lastViscosityArg # <<>>
  /\ \E c \in Interior : density[c] # snap.density[c]
  /\ \E f \in UFaces : velocity.u[f] # snap.velocity.u[f]

\* The square of twice the largest magnitude |v + dt * g| of the cell-centre
\* velocity over all cells.
MaxMagnitudeSquared4(vel, g, dt) ==
  LET sq == {LET c == ValueAtCellCenter2(vel, idx)
                 x == c[1] + 2 * dt * g[1]
                 y == c[2] + 2 * dt * g[2]
             IN  x * x + y * y : idx \in Cells}
  IN  CHOOSE m \in sq : \A x \in sq : m >= x

\* The field with the sign of every sample flipped.
Negated(vel) ==
  [u |-> [f \in UFaces |-> -vel.u[f]], v |-> [f \in VFaces |-> -vel.v[f]]]

\* C12: the velocity cfl(dt) multiplies by dt / min(spacing) is the largest
\* magnitude |v + dt * g| of the cell-centre velocity over all cells (compared
\* here by their squares), and without gravity a field and the field with
\* its signs flipped get the same number of sub-steps.
C12_CflFromMagnitude ==
  /\ MaxVel2(velocity, gravity, FrameDt) * MaxVel2(velocity, gravity, FrameDt)
       = MaxMagnitudeSquared4(velocity, gravity, FrameDt)
  /\ \A a \in NumberOfSubTimeSteps(Negated(velocity), <<0, 0>>, maxCfl, FrameDt),
        b \in NumberOfSubTimeSteps(velocity, <<0, 0>>, maxCfl, FrameDt) :
       a = b

\* An advection sweep that reads a frozen snapshot: every interior cell gets
\* the sample of the density as it was when the sweep started, then the
\* boundary condition is reapplied.
DoubleBufferedSweep(d, vel, dt) ==
  ApplyBoundaryCondition(
    [c \in Cells |->
       IF c \in Interior THEN Sample(d, BacktracePoint(vel, c, dt)) ELSE d[c]])

\* C13: every advection sweep leaves the density that a double-buffered
\* sweep over the density from the start of the sweep would leave, for every
\* velocity field and density.
C13_SweepIsDoubleBuffered ==
  [][AtStage("computeAdvection")
       => density' = DoubleBufferedSweep(density, velocity, sub.dt)]_vars

\* The calls of the running step, without the notes about their outcome.
IsCall(e) == e # "velocity.changed"

Calls == SelectSeq(log, IsCall)

NumericalStages ==
  {"computeSource", "computeViscosity", "computePressure", "computeAdvection"}

\* The positions of a call in the log.
Positions(s, e) == {k \in 1..Len(s) : s[k] = e}

\* The stage at position ip of onAdvanceTimeStep belongs to velocityStep.
InVelocityStep(k) ==
  /\ k > 1 + Len(DensityStepStages)
  /\ k <= 1 + Len(DensityStepStages) + Len(VelocityStepStages)

\* C14: one onAdvanceTimeStep runs its begin-of-step and end-of-step stages
\* exactly once each: the hook onBeginAdvanceTimeStep fires exactly once and
\* before every numerical stage, the hook onEndAdvanceTimeStep exactly once
\* and after every numerical stage.
C14_StagesOnceInOrder ==
  StepCompleted =>
    /\ SeqCount(log, "beginAdvanceTimeStep") = 1
    /\ SeqCount(log, "endAdvanceTimeStep") = 1
    /\ SeqCount(log, "onBeginAdvanceTimeStep") = 1
    /\ SeqCount(log, "onEndAdvanceTimeStep") = 1
    /\ \A i \in Positions(log, "onBeginAdvanceTimeStep") :
         \A j \in 1..Len(log) : log[j] \in NumericalStages => i < j
    /\ \A i \in Positions(log, "onEndAdvanceTimeStep") :
         \A j \in 1..Len(log) : log[j] \in NumericalStages => j < i

\* C15: within one sub-step every advection of the density comes after the
\* sub-step's pressure solve.
C15_DensityAdvectedAfterPressure ==
  StepCompleted =>
    \A i \in Positions(log, "advectDensity") :
      \A j \in Positions(log, "pressure.solve") : j < i

\* C16: in every sub-step the pressure solver is invoked exactly once, by the
\* computePressure stage of velocityStep, when both diffusion stages and only
\* the density step's advection have run, and applyBoundaryCondition is the
\* call that follows it.
C16_PressureOnceInVelocityStep ==
  /\ pc = "step" => SeqCount(log, "pressure.solve") <= 1
  /\ AfterStage("computePressure") =>
       /\ InVelocityStep(ip - 1)
       /\ InVelocityStep(ip - 2)
       /\ OnAdvanceTimeStepStages[ip - 2] = "computeViscosity"
       /\ OnAdvanceTimeStepStages[ip] = "computeAdvection"
       /\ Calls[Len(Calls)] = "applyBoundaryCondition"
       /\ Calls[Len(Calls) - 1] = "pressure.solve"
  /\ StepCompleted =>
       /\ SeqCount(log, "pressure.solve") = 1
       /\ \A p \in Positions(Calls, "pressure.solve") :
            /\ Calls[p + 1] = "applyBoundaryCondition"
            /\ Cardinality({k \in Positions(Calls, "computeViscosity") : k < p}) = 2
            /\ Cardinality({k \in Positions(Calls, "computeAdvection") : k < p}) = 1
            /\ Cardinality({k \in Positions(Calls, "computeAdvection") : k > p}) = 1

\* A step has completed with a collider attached, a gravity and an active
\* viscosity, in which the diffusion solver ran and the pressure solve
\* changed the velocity.
C16_Witness ==
  /\ StepCompleted
  /\ collider.attached
  /\ gravity = <<1, 0>>
  /\ ViscosityActive(viscosityCoefficient)
  /\ SeqCount(log, "diffusion.solve") = 2
  /\ SeqCount(log, "velocity.changed") = 1

\* C17: within one sub-step the density is advected exactly once; the
\* advection stage of velocityStep changes no interior density value.
C17_DensityAdvectedOnce ==
  [][(AtStage("computeAdvection") /\ InVelocityStep(ip))
       => /\ \A c \in Interior : density'[c] = density[c]
          /\ SeqCount(log', "advectDensity") = 1]_vars

\* C18: for every interior cell and every velocity, the cells from which the
\* density sample at the clamped backtrace point is interpolated are interior
\* cells (indices 1..N on each axis): no ghost cell value contributes.
C18_StencilInsideInterior ==
  \A p \in stats.sampled : Stencil(p) \subseteq Interior

\* A sweep has sampled between data positions, interpolating several cells,
\* and, under a velocity that carries the backtrace out of the field, at the
\* outermost interior cells on both sides.
C18_Witness ==
  /\ AfterStage("computeAdvection")
  /\ \E p \in stats.sampled : Cardinality(Stencil(p)) > 1
  /\ \E c, e \in Interior :
       /\ velocity.u[c] * sub.dt > FieldSize * Spacing
       /\ velocity.u[e] * sub.dt < -(FieldSize * Spacing)
  /\ \E p, q \in stats.sampled :
       /\ \E y \in InteriorRange : Stencil(p) = {<<1, y>>}
       /\ \E y \in InteriorRange : Stencil(q) = {<<SolverN, y>>}

\* computeGravity is called by this step.
ComputeGravityCalled ==
  SeqCount(log', "computeGravity") = SeqCount(log, "computeGravity") + 1

\* C19: computeGravity(dt) adds dt * g_k to every sample of velocity
\* component k for each axis whose gravity component is not zero, leaves the
\* other components as they were, and then reapplies the boundary condition;
\* for a gravity whose squared magnitude is not above eps (on the scale of the
\* gravity: is 0) it changes no field and does not reapply the boundary
\* condition.
C19_ComputeGravity ==
  [][ComputeGravityCalled =>
       IF gravity[1] * gravity[1] + gravity[2] * gravity[2] > 0
       THEN /\ \A f \in UFaces :
                 velocity'.u[f] = velocity.u[f]
                   + (IF gravity[1] = 0 THEN 0 ELSE sub'.dt * gravity[1])
            /\ \A f \in VFaces :
                 velocity'.v[f] = velocity.v[f]
                   + (IF gravity[2] = 0 THEN 0 ELSE sub'.dt * gravity[2])
            /\ density' = ApplyBoundaryCondition(density)
            /\ log' = log \o <<"computeGravity", "applyBoundaryCondition">>
       ELSE /\ velocity' = velocity
            /\ density' = density
            /\ log' = log \o <<"computeGravity">>]_vars

\* computeGravity has run twice on a moving field: once with the gravity
\* (0, 0), which did nothing, once with a gravity of which both components
\* are nonzero, which changed the samples of both components and the ghost
\* border of the density.
C19_Witness ==
  /\ pc = "idle"
  /\ log = <<"computeGravity", "computeGravity", "applyBoundaryCondition">>
  /\ gravity = <<1, -98>>
  /\ snap.velocity # ZeroVelocity
  /\ \A f \in VFaces : velocity.v[f] = snap.velocity.v[f] + sub.dt * gravity[2]
  /\ \A f \in UFaces : velocity.u[f] = snap.velocity.u[f] + sub.dt * gravity[1]
  /\ density # snap.density

\* extrapolateIntoCollider has been called at the end of the step.
Extrapolated == pc = "stepDone" /\ stats.marker # <<>>

\* C20: extrapolateIntoCollider marks a cell 1 exactly when the collider's
\* signed distance at the cell's data position is not inside the collider
\* and 0 otherwise, and requests extrapolation over ceil(maxCfl) layers,
\* which is at least 1 whatever setMaxCfl was given.
C20_ExtrapolateIntoCollider ==
  Extrapolated =>
    /\ \A idx \in Cells :
         /\ stats.marker[idx] \in {0, 1}
         /\ stats.marker[idx] = 1
              <=> ColliderSdf(collider, DataPosition(idx)) >= 0
    /\ ~CflLess(<<stats.depth * CflOne, 0>>, maxCfl)
    /\ CflLess(<<(stats.depth - 1) * CflOne, 0>>, maxCfl)
    /\ stats.depth >= 1

\* The utility has run with a collider that covers some cells and touches
\* others, once maxCfl was clamped up to eps, which is rounded up to a depth
\* of 1.
C20_Witness ==
  /\ Extrapolated
  /\ collider.attached
  /\ maxCfl = CflEps
  /\ stats.depth = 1
  /\ CflLess(maxCfl, <<stats.depth * CflOne, 0>>)
  /\ \E idx \in Cells : stats.marker[idx] = 0
  /\ \E idx \in Cells :
       stats.marker[idx] = 1 /\ ColliderSdf(collider, DataPosition(idx)) = 0
  /\ stats.extrapolated # density

\* C21: for every solver size (Nx, Ny), Nx # Ny included, computeAdvection
\* calls advectDensity for exactly the interior cells 1..Nx by 1..Ny,
\* applyBoundaryCondition writes exactly the ghost cells of the
\* (Nx + 2) x (Ny + 2) density, and neither reads or writes an index outside
\* the field.
C21_AnySizeCoversField ==
  stats.refreshed # {} =>
    LET size == SizeOfField(density)
    IN  /\ stats.advected # {} => stats.advected = RectInterior(size)
        /\ stats.refreshed = RectGhost(size)
        /\ stats.outside = {}

\* The square case of the same sweep: every interior cell advected, every
\* ghost cell refreshed, nothing outside the field touched.
C21_SquareCovered ==
  /\ stats.advected # {}
  /\ SizeOfField(density) = <<MaxSide, MaxSide>>
  /\ stats.advected = RectInterior(SizeOfField(density))
  /\ stats.refreshed = RectGhost(SizeOfField(density))
  /\ stats.outside = {}

\* -1, or a valid solver index on the axis.
ValidOrNone(i, n) == i = -1 \/ i \in 0..(n - 1)

\* C22: after any sequence of mouse button and mouse move events, each
\* component of the stored source position is -1 or a valid solver index in
\* [0, size - 1] on its axis.
C22_SourcePosInRange ==
  /\ ValidOrNone(window.sourcePos[1], SolverSize[1])
  /\ ValidOrNone(window.sourcePos[2], SolverSize[2])

\* C23: whenever the Source drag flag is not set, the stored source position
\* is (-1, -1).
C23_NoSourceWithoutDrag ==
  ~window.dragSource => window.sourcePos = <<-1, -1>>

\* A move event has been handled under a Force drag, with the Source flag
\* clear, at a position over the grid: it recorded the mouse position and
\* the force direction and left the source position at (-1, -1).
C23_Witness ==
  /\ ~window.dragSource
  /\ window.dragForce
  /\ window.forceDir # <<>>
  /\ window.pivot = window.mouse
  /\ MouseToGridIndex(window.mouse)[1] >= 0
  /\ MouseToGridIndex(window.mouse)[2] >= 0
  /\ window.sourcePos = <<-1, -1>>

====
